---- MODULE Spec2Model ----
(***************************************************************************)
(* car_solar_flux of solar_array_calculator.py as a state machine.         *)
(*                                                                         *)
(* One run of the function: the line loop over the mesh file (one step per *)
(* line), the geometry loop (one step per iteration), the sun vector with  *)
(* its heading rotation, the flux loop (one step per iteration) and the    *)
(* return.  A Python exception ends the run in outcome "error".            *)
(*                                                                         *)
(* Numbers are exact: tokens and coordinates are integers, angles are      *)
(* multiples of 90 degrees (sin and cos in {-1, 0, 1}), and the flux is    *)
(* kept as the numerator of a fraction over FluxDen.  The area             *)
(* accumulator is kept as the list of squared norms whose roots it sums.   *)
(***************************************************************************)
EXTENDS Integers, Sequences, FiniteSets, TLC

VARIABLES
    file,            \* the lines of test.msh
    pos,             \* number of lines the for loop has finished with
    pc,              \* "read", "geometry", "sun", "flux", "done"
    outcome,         \* "running", "returned", "error"
    error,           \* the exception raised, "none" if none
    node_read, node_vector, element_read, element_vector,
    i, normal_vec, area,
    h_corr, azimuth, julian_day, irr, z_rotate, sun_vec,
    flux, ele_count, neg_count, j,
    result,          \* the returned tuple, <<>> until the return
    corners,         \* history: the corner positions each geometry iteration read
    visited          \* history: the indexes j the flux loop read normal_vec at

vars == <<file, pos, pc, outcome, error, node_read, node_vector, element_read,
          element_vector, i, normal_vec, area, h_corr, azimuth, julian_day,
          irr, z_rotate, sun_vec, flux, ele_count, neg_count, j, result,
          corners, visited>>

----------------------------------------------------------------------------
(* Bounds of the model *)

\* most element records in an $Elements section
MaxElems == 2
\* largest irradiance the astronomical model returns
MaxIrr == 1

----------------------------------------------------------------------------
(* Lines of the mesh file.  mark is the section marker the line contains  *)
(* ("" if none), tok its whitespace-separated tokens when they are all     *)
(* integer literals, numeric whether they are.                             *)

MarkLine(m) == [mark |-> m, tok |-> <<>>, numeric |-> FALSE]
NumLine(t) == [mark |-> "", tok |-> t, numeric |-> TRUE]
\* a line such as "$MeshFormat": one token, no marker in it, not a number
TextLine == [mark |-> "", tok |-> <<0>>, numeric |-> FALSE]

\* line.find(s) >= 0
Find(line, s) == line.mark = s

\* the int 0 appended for the count line
Placeholder == [obj |-> FALSE, num |-> 0, type |-> 0, vec |-> <<>>]
\* NodeVector() with node_num and node_vec set; np.int and np.float are the
\* builtin int and float
NodeVector(num, vec) == [obj |-> TRUE, num |-> num, type |-> 0, vec |-> vec]
\* ElementVector() with ele_num, ele_type and ele_vec set
ElementVector(num, type, vec) == [obj |-> TRUE, num |-> num, type |-> type, vec |-> vec]

----------------------------------------------------------------------------
(* The body of the line loop *)

\* the exception of lines 103-105 on this line, "none" if it parses
NodeParseError(line) ==
    IF Len(line.tok) = 0 THEN "IndexError"
    ELSE IF ~line.numeric THEN "ValueError"
    ELSE IF Len(line.tok) < 4 THEN "IndexError"
    ELSE "none"

\* the exception of lines 116-120 on this line, "none" if it parses
ElementParseError(line) ==
    IF Len(line.tok) = 0 THEN "IndexError"
    ELSE IF ~line.numeric THEN "ValueError"
    ELSE IF Len(line.tok) < 2 THEN "IndexError"
    ELSE IF line.tok[2] = 2 /\ Len(line.tok) < 8 THEN "IndexError"
    ELSE "none"

\* lines 95-106; cont is set when the block ends in continue
NodeBlock(s, line) ==
    IF s.node_read = 1
    THEN [s EXCEPT !.node_read = 2,
                   !.node_vector = Append(@, Placeholder),
                   !.cont = TRUE]
    ELSE IF s.node_read = 2
    THEN IF NodeParseError(line) # "none"
         THEN [s EXCEPT !.err = NodeParseError(line)]
         ELSE [s EXCEPT !.node_vector =
                  Append(@, NodeVector(line.tok[1],
                                       <<line.tok[2], line.tok[3], line.tok[4]>>))]
    ELSE s

\* RetainElement without the test of line 119
RetainAny(s, line) ==
    [s EXCEPT !.element_vector =
        Append(@, ElementVector(line.tok[1], line.tok[2],
                                <<line.tok[Len(line.tok) - 2],
                                  line.tok[Len(line.tok) - 1],
                                  line.tok[Len(line.tok)]>>))]

\* lines 119-121
RetainElement(s, line) ==
    IF line.tok[2] = 2
    THEN [s EXCEPT !.element_vector =
             Append(@, ElementVector(line.tok[1], line.tok[2],
                                     <<line.tok[6], line.tok[7], line.tok[8]>>))]
    ELSE s

\* lines 107-121
ElementBlock(s, line) ==
    IF s.element_read = 1
    THEN [s EXCEPT !.element_read = 2,
                   !.element_vector = Append(@, Placeholder),
                   !.cont = TRUE]
    ELSE IF s.element_read = 2
    THEN IF ElementParseError(line) # "none"
         THEN [s EXCEPT !.err = ElementParseError(line)]
         ELSE RetainElement(s, line)
    ELSE s

\* lines 82-93: the marker tests, in the order of the code
MarkerBlock(s, line) ==
    IF Find(line, "$Nodes") THEN [s EXCEPT !.node_read = 1, !.cont = TRUE]
    ELSE IF Find(line, "$EndNodes") THEN [s EXCEPT !.node_read = 0, !.cont = TRUE]
    ELSE IF Find(line, "$Elements") THEN [s EXCEPT !.element_read = 1, !.cont = TRUE]
    ELSE IF Find(line, "$EndElements") THEN [s EXCEPT !.element_read = 0, !.cont = TRUE]
    ELSE s

\* lines 81-121: one pass of the loop body; the node block does not end in
\* continue after a node record, so the element block sees the same line
ProcessLine(s, line) ==
    LET a == MarkerBlock(s, line) IN
    IF a.cont THEN a
    ELSE LET b == NodeBlock(a, line) IN
         IF b.cont \/ b.err # "none" THEN b
         ELSE ElementBlock(b, line)

----------------------------------------------------------------------------
(* Python list indexing and numpy.size *)

\* whether list[n] raises no IndexError
PyInRange(list, n) == -Len(list) <= n /\ n < Len(list)
\* list[n], a negative n counting from the end
PyGet(list, n) == IF n >= 0 THEN list[n + 1] ELSE list[Len(list) + n + 1]
\* np.size(list) of a flat list
Size(list) == Len(list)

----------------------------------------------------------------------------
(* Vectors *)

Subtract(a, b) == <<a[1] - b[1], a[2] - b[2], a[3] - b[3]>>
Cross(a, b) == <<a[2] * b[3] - a[3] * b[2],
                 a[3] * b[1] - a[1] * b[3],
                 a[1] * b[2] - a[2] * b[1]>>
Dot(a, b) == a[1] * b[1] + a[2] * b[2] + a[3] * b[3]
Negate(a) == <<-a[1], -a[2], -a[3]>>
\* np.linalg.norm(a) squared
NormSq(a) == Dot(a, a)

\* Canonical without the flip
CanonicalNone(normal) == normal
\* lines 148-149
Canonical(normal) == IF normal[3] < 0 THEN Negate(normal) ELSE normal

\* the exception of x = list[n].attr, "none" if none
AttrError(list, n) ==
    IF ~PyInRange(list, n) THEN "IndexError"
    ELSE IF ~PyGet(list, n).obj THEN "AttributeError"
    ELSE "none"

\* the first exception of lines 145-146 for corners n0, n1, n2, in the
\* order Python evaluates the arguments
LookupError(nodes, n0, n1, n2) ==
    IF AttrError(nodes, n1) # "none" THEN AttrError(nodes, n1)
    ELSE IF AttrError(nodes, n0) # "none" THEN AttrError(nodes, n0)
    ELSE AttrError(nodes, n2)

\* lines 145-149 for corners n0, n1, n2
Normal(nodes, n0, n1, n2) ==
    LET v1 == Subtract(PyGet(nodes, n1).vec, PyGet(nodes, n0).vec)
        v2 == Subtract(PyGet(nodes, n2).vec, PyGet(nodes, n0).vec)
    IN  Canonical(Cross(v1, v2))

\* the stop of range(1, np.size(element_vector)), line 126
GeometryRange(elements) == Size(elements)
\* FluxRange stopping one triangle early
FluxRangeShort(elements) == Size(elements) - 2
\* the stop of range(0, np.size(element_vector)-1), line 179
FluxRange(elements) == Size(elements) - 1

----------------------------------------------------------------------------
(* Sun vector *)

\* sin and cos of a multiple of 90 degrees
SinDeg(d) == CASE d % 360 = 0 -> 0 [] d % 360 = 90 -> 1
               [] d % 360 = 180 -> 0 [] d % 360 = 270 -> -1
CosDeg(d) == CASE d % 360 = 0 -> 1 [] d % 360 = 90 -> 0
               [] d % 360 = 180 -> -1 [] d % 360 = 270 -> 0

\* lines 163-166
RawSun(h, az, jd) == <<SinDeg(h), CosDeg(az), SinDeg(jd)>>

\* Rotate with cos and sin exchanged in line 171
RotateSwapped(v, t) ==
    LET x0 == v[1] * CosDeg(t) - v[2] * SinDeg(t)
        x1 == x0 * CosDeg(t) + v[2] * SinDeg(t)
    IN  <<x0, x1, v[3]>>

\* lines 170-171: sun_vec[0] is assigned first and line 171 reads it back
Rotate(v, t) ==
    LET x0 == v[1] * CosDeg(t) - v[2] * SinDeg(t)
        x1 == x0 * SinDeg(t) + v[2] * CosDeg(t)
    IN  <<x0, x1, v[3]>>

----------------------------------------------------------------------------
(* Flux *)

\* eff = 0.239 = EffNum / 1000
EffNum == 239
\* temp of line 180 is Contribution / FluxDen
FluxDen == 1000 * 2 * 1000000
\* line 180, as a numerator over FluxDen
Contribution(ir, sun, normal) == EffNum * ir * Dot(sun, normal)
\* Clamp without the test of line 181
ClampNone(temp) == temp
\* lines 181-182
Clamp(temp) == IF temp < 0 THEN 0 ELSE temp
\* lines 181-183
CountNeg(temp, n) == IF temp < 0 THEN n + 1 ELSE n

----------------------------------------------------------------------------
(* The mesh files the runs read *)

\* node positions in mm, by place in the $Nodes section: a horizontal
\* triangle (1,2,3), a vertical one (1,2,4), a tilted one (2,3,4) and three
\* points in line (1,2,5)
SlotPos == << <<0, 0, 0>>, <<1, 0, 0>>, <<0, 1, 0>>, <<0, 0, 1>>, <<2, 0, 0>> >>

\* the identifiers 1, 2, ... in order
Contiguous == <<1, 2, 3, 4, 5>>

\* node identifiers by place: contiguous from 1, out of order, with a gap,
\* not starting at 1
IdLists == { Contiguous, <<2, 1, 3, 4, 5>>, <<1, 2, 3, 4, 6>>, <<2, 3, 4, 5, 6>> }

\* corner identifiers of the triangle records whose corners all exist in
\* every node table by place: both windings of a horizontal and of a
\* vertical triangle, a tilted one, one with two corners the same and one
\* with its corners in line
GoodRefs == { <<1, 2, 3>>, <<1, 3, 2>>, <<1, 2, 4>>, <<1, 4, 2>>,
              <<2, 3, 4>>, <<1, 1, 2>>, <<1, 2, 5>> }
\* corner identifiers with a corner 0, negative or past the last node
BadRefs == { <<0, 1, 2>>, <<1, -1, 2>>, <<1, 2, 6>>, <<1, 2, -6>> }

NodeLine(id, p) == NumLine(<<id, p[1], p[2], p[3]>>)
\* a 3-node triangle record with two tags
TriLine(id, r) == NumLine(<<id, 2, 2, 0, 0, r[1], r[2], r[3]>>)
\* a 2-node line record with two tags
SegLine(id) == NumLine(<<id, 1, 2, 0, 0, 1, 2>>)
\* element record number k: <<>> chooses the 2-node line
ElemLine(k, c) == IF c = <<>> THEN SegLine(k) ELSE TriLine(k, c)

\* the element sections of at most MaxElems records over the choices cs
Bodies(cs) == UNION { [1..n -> cs] : n \in 0..MaxElems }

WellFormed(ids, body) ==
    <<TextLine, MarkLine("$Nodes"), NumLine(<<Len(ids)>>)>>
    \o [k \in 1..Len(ids) |-> NodeLine(ids[k], SlotPos[k])]
    \o <<MarkLine("$EndNodes"), MarkLine("$Elements"), NumLine(<<Len(body)>>)>>
    \o [k \in 1..Len(body) |-> ElemLine(k, body[k])]
    \o <<MarkLine("$EndElements")>>

DeleteAt(f, k) == SubSeq(f, 1, k - 1) \o SubSeq(f, k + 1, Len(f))
SwapAt(f, k) == [n \in 1..Len(f) |->
                    IF n = k THEN f[k + 1] ELSE IF n = k + 1 THEN f[k] ELSE f[n]]
\* f with one line missing or two neighbouring lines exchanged
Damaged(f) == { DeleteAt(f, k) : k \in 1..Len(f) }
              \cup { SwapAt(f, k) : k \in 1..(Len(f) - 1) }

\* the files whose damaged copies are read
Bases == { WellFormed(Contiguous, b) : b \in Bodies({<<>>, <<1, 2, 3>>, <<2, 3, 4>>}) }

\* f without its last line
Unclosed(f) == SubSeq(f, 1, Len(f) - 1)

\* every node table with every element section
Meshes ==
    { WellFormed(ids, b) : ids \in IdLists,
                           b \in Bodies({<<>>} \cup GoodRefs \cup BadRefs) }

\* the meshes, the meshes without their $EndElements line, and the damaged
\* files
MeshFiles ==
    Meshes \cup { Unclosed(f) : f \in Meshes } \cup UNION { Damaged(f) : f \in Bases }

\* the contiguous node table with every element section of existing corners,
\* and one file of each kind of failure
FluxFiles ==
    { WellFormed(Contiguous, b) : b \in Bodies({<<>>} \cup GoodRefs) }
    \cup { WellFormed(Contiguous, <<<<1, 2, 6>>>>),
           DeleteAt(WellFormed(Contiguous, <<<<1, 2, 3>>>>), 3) }

----------------------------------------------------------------------------
(* What the astronomical model returns, and the heading *)

Angles == {0, 90, 180, 270, 360}
\* [h_corr, azimuth, julian_day], irr and z_rotate
SunInput(h, az, jd, ir, t) == [h |-> h, az |-> az, jd |-> jd, irr |-> ir, t |-> t]
WideSun == { SunInput(h, az, jd, ir, t) :
               h \in {0, 90, 270}, az \in {0, 90, 180}, jd \in {90, 270},
               ir \in 0..MaxIrr, t \in Angles }
NarrowSun == { SunInput(90, 180, 90, 1, 0), SunInput(270, 0, 270, 1, 90),
               SunInput(90, 90, 90, 1, 180) }

----------------------------------------------------------------------------
(* The run *)

\* lines 74-77, before the first line is read
InitWith(files) ==
    /\ file \in files
    /\ pos = 0
    /\ pc = "read"
    /\ outcome = "running"
    /\ error = "none"
    /\ node_read = 0
    /\ node_vector = <<>>
    /\ element_read = 0
    /\ element_vector = <<>>
    /\ i = 0
    /\ normal_vec = <<>>
    /\ area = <<>>
    /\ h_corr = 0 /\ azimuth = 0 /\ julian_day = 0 /\ irr = 0 /\ z_rotate = 0
    /\ sun_vec = <<0, 0, 0>>
    /\ flux = 0 /\ ele_count = 0 /\ neg_count = 0 /\ j = 0
    /\ result = <<>>
    /\ corners = <<>>
    /\ visited = <<>>

Init == InitWith(MeshFiles)
InitFlux == InitWith(FluxFiles)

\* an exception leaves the function
Raise(e) ==
    /\ pc' = "done"
    /\ outcome' = "error"
    /\ error' = e

\* lines 80-121: the loop body on the next line of the file
ReadLine ==
    /\ pc = "read"
    /\ pos < Len(file)
    /\ LET s == [node_read |-> node_read, node_vector |-> node_vector,
                 element_read |-> element_read, element_vector |-> element_vector,
                 err |-> "none", cont |-> FALSE]
           t == ProcessLine(s, file[pos + 1])
       IN  /\ pos' = IF t.err # "none" THEN pos ELSE pos + 1
           /\ node_read' = t.node_read
           /\ node_vector' = t.node_vector
           /\ element_read' = t.element_read
           /\ element_vector' = t.element_vector
           /\ IF t.err # "none"
              THEN Raise(t.err)
              ELSE UNCHANGED <<pc, outcome, error>>
    /\ UNCHANGED <<file, i, normal_vec, area, h_corr, azimuth, julian_day, irr,
                   z_rotate, sun_vec, flux, ele_count, neg_count, j, result,
                   corners, visited>>

\* the for loop of line 80 ends with the file; lines 124-126
EndOfFile ==
    /\ pc = "read"
    /\ pos = Len(file)
    /\ pc' = "geometry"
    /\ normal_vec' = <<>>
    /\ area' = <<>>
    /\ i' = 1
    /\ UNCHANGED <<file, pos, outcome, error, node_read, node_vector,
                   element_read, element_vector, h_corr, azimuth, julian_day,
                   irr, z_rotate, sun_vec, flux, ele_count, neg_count, j,
                   result, corners, visited>>

\* lines 126-153: one iteration of the geometry loop
GeometryStep ==
    /\ pc = "geometry"
    /\ i < GeometryRange(element_vector)
    /\ LET e == PyGet(element_vector, i) IN
       IF ~e.obj
       THEN /\ Raise("AttributeError")
            /\ UNCHANGED <<i, normal_vec, area, corners>>
       ELSE LET n0 == e.vec[1]
                n1 == e.vec[2]
                n2 == e.vec[3]
            IN  IF LookupError(node_vector, n0, n1, n2) # "none"
                THEN /\ Raise(LookupError(node_vector, n0, n1, n2))
                     /\ UNCHANGED <<i, normal_vec, area, corners>>
                ELSE /\ normal_vec' = Append(normal_vec, Normal(node_vector, n0, n1, n2))
                     /\ area' = Append(area, NormSq(Normal(node_vector, n0, n1, n2)))
                     /\ corners' = Append(corners, <<PyGet(node_vector, n0).vec,
                                                     PyGet(node_vector, n1).vec,
                                                     PyGet(node_vector, n2).vec>>)
                     /\ i' = i + 1
                     /\ UNCHANGED <<pc, outcome, error>>
    /\ UNCHANGED <<file, pos, node_read, node_vector, element_read,
                   element_vector, h_corr, azimuth, julian_day, irr, z_rotate,
                   sun_vec, flux, ele_count, neg_count, j, result, visited>>

\* the range of line 126 is used up
GeometryDone ==
    /\ pc = "geometry"
    /\ ~(i < GeometryRange(element_vector))
    /\ pc' = "sun"
    /\ UNCHANGED <<file, pos, outcome, error, node_read, node_vector,
                   element_read, element_vector, i, normal_vec, area, h_corr,
                   azimuth, julian_day, irr, z_rotate, sun_vec, flux, ele_count,
                   neg_count, j, result, corners, visited>>

\* lines 161-179: the astronomical model answers in, the sun vector is built
\* and rotated, the flux loop is set up
SunVector(inputs) ==
    /\ pc = "sun"
    /\ \E in \in inputs :
         /\ h_corr' = in.h
         /\ azimuth' = in.az
         /\ julian_day' = in.jd
         /\ irr' = in.irr
         /\ z_rotate' = in.t
         /\ sun_vec' = Rotate(RawSun(in.h, in.az, in.jd), in.t)
    /\ flux' = 0
    /\ ele_count' = Size(element_vector)
    /\ neg_count' = 0
    /\ j' = 0
    /\ pc' = "flux"
    /\ UNCHANGED <<file, pos, outcome, error, node_read, node_vector,
                   element_read, element_vector, i, normal_vec, area, result,
                   corners, visited>>

\* lines 179-184: one iteration of the flux loop
FluxStep ==
    /\ pc = "flux"
    /\ j < FluxRange(element_vector)
    /\ IF ~PyInRange(normal_vec, j)
       THEN /\ Raise("IndexError")
            /\ UNCHANGED <<flux, neg_count, j, visited>>
       ELSE LET temp == Contribution(irr, sun_vec, PyGet(normal_vec, j)) IN
            /\ flux' = flux + Clamp(temp)
            /\ neg_count' = CountNeg(temp, neg_count)
            /\ visited' = Append(visited, j)
            /\ j' = j + 1
            /\ UNCHANGED <<pc, outcome, error>>
    /\ UNCHANGED <<file, pos, node_read, node_vector, element_read,
                   element_vector, i, normal_vec, area, h_corr, azimuth,
                   julian_day, irr, z_rotate, sun_vec, ele_count, result, corners>>

\* line 185
Return ==
    /\ pc = "flux"
    /\ ~(j < FluxRange(element_vector))
    /\ result' = <<flux, area, ele_count, neg_count>>
    /\ outcome' = "returned"
    /\ pc' = "done"
    /\ UNCHANGED <<file, pos, error, node_read, node_vector, element_read,
                   element_vector, i, normal_vec, area, h_corr, azimuth,
                   julian_day, irr, z_rotate, sun_vec, flux, ele_count,
                   neg_count, j, corners, visited>>

Next ==
    \/ ReadLine
    \/ EndOfFile
    \/ GeometryStep
    \/ GeometryDone
    \/ SunVector(NarrowSun)
    \/ FluxStep
    \/ Return

\* the same run with every answer of the astronomical model
NextFlux ==
    \/ ReadLine
    \/ EndOfFile
    \/ GeometryStep
    \/ GeometryDone
    \/ SunVector(WideSun)
    \/ FluxStep
    \/ Return

\* every mesh file, three answers of the astronomical model
Spec == Init /\ [][Next]_vars
\* the meshes of existing corners, every answer of the astronomical model
SpecFlux == InitFlux /\ [][NextFlux]_vars

----------------------------------------------------------------------------
(* What the claims speak of *)

\* the retained triangles: the element objects of the element table
Retained == Cardinality({ k \in 1..Len(element_vector) : element_vector[k].obj })

\* the contribution of a triangle of normal n before the clamp, over FluxDen
Term(n) == EffNum * irr * Dot(sun_vec, n)
\* max(0, contribution)
ClampedTerm(n) == IF Term(n) > 0 THEN Term(n) ELSE 0

RECURSIVE ClampedSum(_)
\* the sum of the clamped contributions of the normals ns
ClampedSum(ns) == IF ns = <<>> THEN 0 ELSE ClampedTerm(Head(ns)) + ClampedSum(Tail(ns))

\* ns without its k-th entry
RemoveAt(ns, k) == SubSeq(ns, 1, k - 1) \o SubSeq(ns, k + 1, Len(ns))

----------------------------------------------------------------------------
(* C1: for every mesh parsed without error, the returned triangle count    *)
(* (third component of the result) equals the number of type-2 records     *)
(* retained from the $Elements section; the placeholder of index 0 is not  *)
(* counted.                                                                *)
C1_CountIsRetainedTriangles ==
    outcome = "returned" => result[3] = Retained

----------------------------------------------------------------------------
(* C2: the flux loop reads the normal of each retained triangle exactly    *)
(* once, in order, at no index outside the normal list, and the returned   *)
(* flux is the sum over all retained triangles, the first and the last     *)
(* included, of max(0, contribution).                                      *)
C2_FluxSumsEveryTriangle ==
    /\ \A k \in 1..Len(visited) : visited[k] = k - 1 /\ visited[k] < Len(normal_vec)
    /\ outcome = "error" => visited = <<>>
    /\ outcome = "returned" =>
         /\ Len(normal_vec) = Retained
         /\ Len(visited) = Retained
         /\ result[1] = ClampedSum(normal_vec)

\* a returned run over two triangles that both face the sun
C2_Witness ==
    /\ outcome = "returned"
    /\ Len(normal_vec) = 2
    /\ Term(normal_vec[1]) > 0
    /\ Term(normal_vec[2]) > 0
    /\ result[1] = Term(normal_vec[1]) + Term(normal_vec[2])

----------------------------------------------------------------------------
(* The two halves of C3: in every iteration of the flux loop a negative    *)
(* contribution adds 0 to flux and 1 to neg_count, any other adds itself   *)
(* to flux and leaves neg_count alone; so the running flux is >= 0 and     *)
(* never decreases, the final neg_count is the number of visited triangles *)
(* of strictly negative contribution, at most the number of retained       *)
(* triangles, and the flux without any one triangle is no larger.          *)
C3_StateInv ==
    /\ flux >= 0
    /\ neg_count <= Retained
    /\ pc = "flux" => neg_count =
          Cardinality({ k \in 1..Len(visited) : Term(normal_vec[visited[k] + 1]) < 0 })
    /\ outcome = "returned" =>
         /\ result[4] =
              Cardinality({ k \in 1..Len(visited) : Term(normal_vec[visited[k] + 1]) < 0 })
         /\ \A k \in 1..Len(normal_vec) : ClampedSum(RemoveAt(normal_vec, k)) <= result[1]

C3_Iteration ==
    (pc = "flux" /\ j' = j + 1) =>
        /\ Term(normal_vec[j + 1]) < 0 => flux' = flux /\ neg_count' = neg_count + 1
        /\ Term(normal_vec[j + 1]) >= 0 =>
              flux' = flux + Term(normal_vec[j + 1]) /\ neg_count' = neg_count
        /\ flux' >= flux

(* C3: the clamp and the count hold in every state and in every iteration  *)
(* of the flux loop: a negative contribution adds 0 to flux and 1 to       *)
(* neg_count, the flux never decreases, and the final counts are as above. *)
C3_ClampAndCount == []C3_StateInv /\ [][C3_Iteration]_vars

\* a returned run with a triangle facing the sun and one facing away
C3_Witness ==
    /\ outcome = "returned"
    /\ result[4] = 1
    /\ result[1] > 0
    /\ \E k \in 1..Len(normal_vec) : Term(normal_vec[k]) < 0

----------------------------------------------------------------------------
\* whether some parsed node record has identifier n
Parsed(n) == \E m \in 1..Len(node_vector) : node_vector[m].obj /\ node_vector[m].num = n
\* the corner identifiers of the triangle of the k-th geometry iteration
CornerIds(k) == element_vector[k + 1].vec

(* C4: node lookup is by identifier: for every retained triangle and each  *)
(* corner identifier N of it, the position the geometry step uses is the   *)
(* position of the node record parsed with identifier N, also when the     *)
(* identifiers have gaps, do not start at 1 or are out of order.           *)
C4_LookupByIdentifier ==
    \A k \in 1..Len(corners) : \A c \in 1..3 :
        \A m \in 1..Len(node_vector) :
            (node_vector[m].obj /\ node_vector[m].num = CornerIds(k)[c])
                => corners[k][c] = node_vector[m].vec

----------------------------------------------------------------------------
(* C6: a retained triangle that names a node identifier no node record was *)
(* parsed with (0, a negative one, one past the last node) makes the run   *)
(* fail: no normal is computed for it from another node's position or the  *)
(* placeholder, and no result is returned.                                 *)
C6_MissingNodeFails ==
    /\ \A k \in 1..Len(normal_vec) : \A c \in 1..3 : Parsed(CornerIds(k)[c])
    /\ outcome = "returned" =>
         \A k \in 2..Len(element_vector) :
            element_vector[k].obj =>
               \A c \in 1..3 : Parsed(element_vector[k].vec[c])

----------------------------------------------------------------------------
\* the sun vector before the heading rotation
Raw == RawSun(h_corr, azimuth, julian_day)
\* once line 171 has run
Rotated == pc = "flux" \/ outcome = "returned"

(* C7: the heading rotation is the standard rotation by the heading t:     *)
(* (x, y, z) becomes (x cos t - y sin t, x sin t + y cos t, z), the second *)
(* component from the original x.                                          *)
C7_StandardRotation ==
    Rotated =>
        sun_vec = << Raw[1] * CosDeg(z_rotate) - Raw[2] * SinDeg(z_rotate),
                     Raw[1] * SinDeg(z_rotate) + Raw[2] * CosDeg(z_rotate),
                     Raw[3] >>

----------------------------------------------------------------------------
(* C10: with heading 360 the rotated sun vector is the one of heading 0,   *)
(* which is the raw vector, in all three components.                       *)
C10_FullTurnIsIdentity ==
    (Rotated /\ z_rotate \in {0, 360}) => sun_vec = Raw

\* a heading of 360 applied to a raw vector with x and y different and not 0
C10_Witness ==
    /\ Rotated
    /\ z_rotate = 360
    /\ Raw[1] # 0 /\ Raw[2] # 0 /\ Raw[1] # Raw[2]
    /\ sun_vec = Raw

----------------------------------------------------------------------------
(* Well-formed files, read from the file alone *)

\* the places of the lines of f that contain marker m
Places(f, m) == { k \in 1..Len(f) : f[k].mark = m }
\* the place of the one line of f that contains marker m
Place(f, m) == CHOOSE k \in 1..Len(f) : f[k].mark = m

IsCountLine(line) == line.numeric /\ Len(line.tok) = 1
IsNodeRecord(line) == line.numeric /\ Len(line.tok) = 4
IsElementRecord(line) ==
    /\ line.numeric
    /\ Len(line.tok) >= 2
    /\ line.tok[2] = 2 => Len(line.tok) >= 8
IsTriangleRecord(line) == line.tok[2] = 2

\* each marker once, in the order $Nodes, $EndNodes, $Elements, $EndElements
MarkersInOrder(f) ==
    /\ \A m \in {"$Nodes", "$EndNodes", "$Elements", "$EndElements"} :
          Cardinality(Places(f, m)) = 1
    /\ Place(f, "$Nodes") < Place(f, "$EndNodes")
    /\ Place(f, "$EndNodes") < Place(f, "$Elements")
    /\ Place(f, "$Elements") < Place(f, "$EndElements")

\* $Nodes, count, node records, $EndNodes, $Elements, count, element
\* records, $EndElements, with any unmarked lines outside the two sections
WellFormedFile(f) ==
    /\ MarkersInOrder(f)
    /\ Place(f, "$Nodes") + 1 < Place(f, "$EndNodes")
    /\ IsCountLine(f[Place(f, "$Nodes") + 1])
    /\ \A k \in (Place(f, "$Nodes") + 2)..(Place(f, "$EndNodes") - 1) : IsNodeRecord(f[k])
    /\ Place(f, "$Elements") + 1 < Place(f, "$EndElements")
    /\ IsCountLine(f[Place(f, "$Elements") + 1])
    /\ \A k \in (Place(f, "$Elements") + 2)..(Place(f, "$EndElements") - 1) :
          IsElementRecord(f[k])

Min(a, b) == IF a < b THEN a ELSE b
NodeOf(line) == NodeVector(line.tok[1], <<line.tok[2], line.tok[3], line.tok[4]>>)
TriangleOf(line) == ElementVector(line.tok[1], 2, <<line.tok[6], line.tok[7], line.tok[8]>>)

\* the node table a well-formed f should have given after n lines
NodesAfter(f, n) ==
    IF n <= Place(f, "$Nodes") THEN <<>>
    ELSE LET first == Place(f, "$Nodes") + 2
             last == Min(n, Place(f, "$EndNodes") - 1)
         IN  <<Placeholder>> \o [k \in 1..(last - first + 1) |-> NodeOf(f[first + k - 1])]

\* the element table a well-formed f should have given after n lines
ElementsAfter(f, n) ==
    IF n <= Place(f, "$Elements") THEN <<>>
    ELSE LET first == Place(f, "$Elements") + 2
             last == Min(n, Place(f, "$EndElements") - 1)
             tris == SelectSeq(SubSeq(f, first, last), IsTriangleRecord)
         IN  <<Placeholder>> \o [k \in 1..Len(tris) |-> TriangleOf(tris[k])]

----------------------------------------------------------------------------
(* C5: a file whose $Elements section is never closed by $EndElements, and *)
(* more generally a file with a missing or out-of-order section marker,    *)
(* ends the run in error and never in a normal return.                     *)
C5_BadMarkersFail ==
    outcome = "returned" => MarkersInOrder(file)

----------------------------------------------------------------------------
\* corner positions q are p with two corners exchanged
Swapped(p, q) ==
    q \in { <<p[1], p[3], p[2]>>, <<p[2], p[1], p[3]>>, <<p[3], p[2], p[1]>> }

\* integer multiples, for the test of three points in line
Factors == -2..2
\* corners p are coincident or in line
Degenerate(p) ==
    \E a, b \in Factors :
        /\ a # 0 \/ b # 0
        /\ \A c \in 1..3 : a * (p[2][c] - p[1][c]) = b * (p[3][c] - p[1][c])

\* what C8 says of the z component and of a degenerate triangle
C8_UpwardAndDegenerate ==
    /\ \A k \in 1..Len(normal_vec) : normal_vec[k][3] >= 0
    /\ \A k \in 1..Len(normal_vec) :
          Degenerate(corners[k]) =>
             /\ normal_vec[k] = <<0, 0, 0>>
             /\ area[k] = 0
             /\ Rotated => Term(normal_vec[k]) = 0
    /\ Rotated => neg_count <=
          Cardinality({ k \in 1..Len(visited) : ~Degenerate(corners[visited[k] + 1]) })

(* C8 as stated: every stored normal has z >= 0; the two windings of the   *)
(* same corners give the identical stored normal (so the same magnitude,   *)
(* area and flux contribution); a degenerate triangle gives the zero       *)
(* normal, area 0 and contribution 0 and is not counted in neg_count.      *)
C8_WindingGivesSameNormal ==
    /\ C8_UpwardAndDegenerate
    /\ \A k, l \in 1..Len(normal_vec) :
          Swapped(corners[k], corners[l]) => normal_vec[k] = normal_vec[l]

(* C8 as amended: every stored normal has z >= 0; the two windings of the  *)
(* same corners give normals of the same magnitude, identical when the     *)
(* cross product has z # 0 and opposite when it has z = 0 (a vertical      *)
(* triangle is not flipped); a degenerate triangle gives the zero normal,  *)
(* area 0 and contribution 0 and is not counted in neg_count.              *)
C8_WindingGivesSameMagnitude ==
    /\ C8_UpwardAndDegenerate
    /\ \A k, l \in 1..Len(normal_vec) :
          Swapped(corners[k], corners[l]) =>
             /\ area[k] = area[l]
             /\ normal_vec[k][3] # 0 => normal_vec[k] = normal_vec[l]
             /\ normal_vec[k][3] = 0 => normal_vec[k] = Negate(normal_vec[l])

\* the two windings of a horizontal triangle, one of them flipped
C8_Witness ==
    /\ Len(normal_vec) = 2
    /\ Swapped(corners[1], corners[2])
    /\ normal_vec[1][3] > 0
    /\ normal_vec[1] = normal_vec[2]
    /\ Cross(Subtract(corners[2][2], corners[2][1]),
             Subtract(corners[2][3], corners[2][1]))[3] < 0

----------------------------------------------------------------------------
(* C9: on a well-formed file, after every line the node table is the       *)
(* placeholder of the count line followed by one entry per node record     *)
(* read so far, in file order, and the element table is the placeholder    *)
(* followed by the type-2 records read so far, in file order; the count    *)
(* lines give no record, records of other types take no slot, lines        *)
(* outside both sections change nothing, and no line raises.               *)
C9_TablesFollowTheFile ==
    WellFormedFile(file) =>
        /\ node_vector = NodesAfter(file, pos)
        /\ element_vector = ElementsAfter(file, pos)
        /\ pc = "read" => error = "none"

\* a well-formed file read to its end, with a record of another type
\* before a triangle
C9_Witness ==
    /\ WellFormedFile(file)
    /\ pc = "geometry"
    /\ Len(element_vector) = 2
    /\ ~IsTriangleRecord(file[Place(file, "$Elements") + 2])
    /\ IsTriangleRecord(file[Place(file, "$Elements") + 3])
    /\ Len(node_vector) = 6

====
